---- MODULE Spec2Model ----
(***************************************************************************)
(* Payment Reconciliation & Ledger Engine of the pgwallah payment service. *)
(*                                                                         *)
(* The committed database (payment_intents, payments, ledger_entries), the *)
(* deferred background tasks and the request handlers of                   *)
(* services/payment/app/api/payments.py.  A handler is split at the awaits *)
(* at which another handler (in this or another worker process) can run:   *)
(* the SELECT of the intent, the gateway fetch, and the COMMIT.            *)
(*                                                                         *)
(* Rows are never deleted, so a row's primary key is modelled by its       *)
(* position in the table; a Payment's key is taken as known when the row   *)
(* object is built.  A NULL / None / "" identifier is NoId, a None Decimal *)
(* is NoAmount, a Decimal with two places is <<units, hundredths>>.        *)
(***************************************************************************)
EXTENDS Integers, Sequences, FiniteSets, Bags, TLC

\* ------------------------------------------------------------- bounds
MaxIntents == 1
MaxDeliveries == 2
MaxSubscriptions == 2
MaxDummyPayments == 3
MaxPostings == 2
MaxPaise == 120
MaxCreateRequests == 3
MaxOrders == 2

\* ---------------------------------------------------------- constants
PaisePerRupee == 100

NoId == 0
NoAmount == << >>

Workers == {1, 2}
PayIds == {1, 2}
OrderIds == 1..MaxIntents

Environments == {"development", "production"}
DefaultEnvironment == "development"
RAZORPAY_WEBHOOK_SECRET == "webhook_secret"
RAZORPAY_KEY_SECRET == "dummy_secret"

PaymentStatus ==
  {"created", "pending", "authorized", "captured", "failed", "cancelled",
   "refunded", "partially_refunded"}

PaymentEvents == {"payment.authorized", "payment.captured", "payment.failed"}
\* the event of a delivery and the status of the payment entity it carries
EventStatusPairs ==
  {<<"payment.authorized", "authorized">>, <<"payment.captured", "captured">>,
   <<"payment.failed", "failed">>, <<"payment.authorized", "created">>,
   <<"order.paid", "captured">>}
PaiseAmounts == {50000}
\* the status of the payment record fetch_payment returns
FetchedStatuses == {"authorized", "captured"}
Purposes == {"rent"}
IntentAmounts == {<<500, 0>>}

VARIABLES
  env_set,    \* the ENVIRONMENT variable of the deployment, or "unset"
  intents,    \* committed payment_intents rows
  payments,   \* committed payments rows
  ledger,     \* committed ledger_entries rows
  events,     \* bag of publish_payment_event tasks scheduled on BackgroundTasks
  req,        \* per worker: the request being handled and where it stands
  response,   \* the last HTTP response produced
  delivered,  \* number of webhook / verify requests received so far
  subscriptions,     \* committed subscriptions rows
  rent_payments,     \* committed rent_payments rows
  advance_payments,  \* committed advance_payments rows
  channel,    \* event_publisher.channel: "none", "ready", or set without exchange
  published,  \* number of messages handed to the payment.events exchange
  charges_delivered, \* <<subscription id, charge id>> of the subscription.charged
                     \* webhooks the handler has accepted so far
  conversion, \* an amount on its way through the gateway adapter's unit conversions
  creating,   \* the POST /intents request in progress: its position, the rows its
              \* open transaction has written, and the requests served so far
  receipt_tasks, \* payment ids of the generate_receipt tasks waiting to run
  orders,     \* orders service: committed orders rows
  rooms,      \* booking service: committed rooms rows
  bookings,   \* booking service: committed booking_requests rows
  coupons, \* mess service: committed meal_coupons rows
  redeem_calls, \* mess service: the redeem requests and how far each has run
  refresh_tokens, \* auth service: committed refresh_tokens rows, the jti is the position
  refresh_calls  \* auth service: the /refresh requests and how far each has run

\* the payment service
payment_service ==
  <<env_set, intents, payments, ledger, events, req, delivered,
    subscriptions, rent_payments, advance_payments, channel, published,
    charges_delivered, conversion, creating, receipt_tasks>>

\* the services next to it, each with a database of its own
other_services == <<orders, rooms, bookings, coupons, redeem_calls, refresh_tokens, refresh_calls>>

\* everything outside the orders service
not_orders ==
  <<payment_service, rooms, bookings, coupons, redeem_calls, refresh_tokens,
    refresh_calls>>

\* everything outside the booking service
not_booking ==
  <<payment_service, orders, coupons, redeem_calls, refresh_tokens,
    refresh_calls>>

\* everything outside the mess service
not_mess ==
  <<payment_service, orders, rooms, bookings, refresh_tokens, refresh_calls>>

\* everything outside the auth service
not_auth ==
  <<payment_service, orders, rooms, bookings, coupons, redeem_calls>>

vars ==
  <<env_set, intents, payments, ledger, events, req, response, delivered,
    subscriptions, rent_payments, advance_payments, channel, published,
    charges_delivered, conversion, creating, receipt_tasks, other_services>>

\* what a handler that schedules a receipt leaves alone
side_state_but_receipts ==
  <<subscriptions, rent_payments, advance_payments, channel, published,
    charges_delivered, conversion, creating, other_services>>

\* the tables and the publisher the payment handlers never touch
side_state ==
  <<subscriptions, rent_payments, advance_payments, channel, published,
    charges_delivered, conversion, creating, receipt_tasks, other_services>>

\* ------------------------------------------------------------ settings
ENVIRONMENT == IF env_set = "unset" THEN DefaultEnvironment ELSE env_set

is_production == ENVIRONMENT = "production"

\* ------------------------------------------------------- gateway adapter
\* hmac.new(secret, payload, sha256).hexdigest(): a digest is determined by
\* the key and the message and differs when either differs.
Hmac(key, msg) == <<key, msg>>

NoSignature == <<"", << >> >>

verify_webhook_signature(payload, signature) ==
  IF RAZORPAY_WEBHOOK_SECRET = ""
    THEN FALSE
    ELSE signature = Hmac(RAZORPAY_WEBHOOK_SECRET, payload)

\* verify_payment_signature that never compares the digests
verify_payment_signature_unchecked(order_id, payment_id, signature) == TRUE

verify_payment_signature(order_id, payment_id, signature) ==
  signature = Hmac(RAZORPAY_KEY_SECRET, <<order_id, payment_id>>)

\* Decimal(amount) / 100
PaiseToRupees(paise) == <<paise \div PaisePerRupee, paise % PaisePerRupee>>

\* the raw request body and json.loads of it
RawBody(event, pay, order, status, amount) == <<event, pay, order, status, amount>>

JsonLoads(payload) ==
  [event |-> payload[1], id |-> payload[2], order_id |-> payload[3],
   status |-> payload[4], amount |-> payload[5]]

\* --------------------------------------------------------------- tables
\* a handler that takes an absent order id as any other
NoOrderId_unguarded(order_id) == FALSE

\* not razorpay_order_id
NoOrderId(order_id) == order_id = NoId

\* select(PaymentIntent).where(razorpay_order_id == order_id): the row's key, or NoId
RECURSIVE SelectIntent(_, _)
SelectIntent(order_id, i) ==
  IF i > Len(intents) THEN NoId
  ELSE IF intents[i].razorpay_order_id = order_id THEN i
  ELSE SelectIntent(order_id, i + 1)

PaymentsWithId(pay) ==
  {i \in DOMAIN payments : payments[i].razorpay_payment_id = pay}

PaymentsOfOrder(order) ==
  {i \in DOMAIN payments : payments[i].razorpay_order_id = order}

\* request.tenant_id: every request is made by a tenant of its own
request_tenant_id == Len(intents) + 1

\* the primary key of a Payment, set when the row object is built
NewPaymentId == Len(payments) + 1

\* payments.razorpay_payment_id without unique=True
PaymentInsertFails_NotUnique(payment) == payment.razorpay_payment_id = NoId

\* payments.razorpay_payment_id: unique=True, nullable=False
PaymentInsertFails(payment) ==
  \/ payment.razorpay_payment_id = NoId
  \/ PaymentsWithId(payment.razorpay_payment_id) # {}

TransactionId(pay) == <<"PAY_", pay>>

\* the revenue account map without its "mess" key
RevenueAccount_without_mess(purpose) ==
  CASE purpose = "rent" -> "rent_revenue"
    [] purpose = "deposit" -> "security_deposits"
    [] OTHER -> "other_revenue"

RevenueAccount(purpose) ==
  CASE purpose = "rent" -> "rent_revenue"
    [] purpose = "deposit" -> "security_deposits"
    [] purpose = "mess" -> "mess_revenue"
    [] OTHER -> "other_revenue"

\* create_ledger_entries with one leg of the pair dropped
create_ledger_entries_one_leg(payment, payment_intent) ==
  << [transaction_id |-> TransactionId(payment.razorpay_payment_id),
      account |-> "cash_and_bank",
      debit |-> payment.amount, credit |-> NoAmount,
      reference_type |-> "payment", reference_id |-> payment.id,
      tenant_id |-> payment.tenant_id] >>

\* create_ledger_entries naming its transaction after the order, not the payment
create_ledger_entries_by_order(payment, payment_intent) ==
  << [transaction_id |-> <<"ORD_", payment.razorpay_order_id>>,
      account |-> "cash_and_bank",
      debit |-> payment.amount, credit |-> NoAmount,
      reference_type |-> "payment", reference_id |-> payment.id,
      tenant_id |-> payment.tenant_id],
     [transaction_id |-> <<"ORD_", payment.razorpay_order_id>>,
      account |-> RevenueAccount(payment_intent.purpose),
      debit |-> NoAmount, credit |-> payment.amount,
      reference_type |-> "payment", reference_id |-> payment.id,
      tenant_id |-> payment.tenant_id] >>

\* the two rows create_ledger_entries hands to db.add_all
create_ledger_entries(payment, payment_intent) ==
  << [transaction_id |-> TransactionId(payment.razorpay_payment_id),
      account |-> "cash_and_bank",
      debit |-> payment.amount, credit |-> NoAmount,
      reference_type |-> "payment", reference_id |-> payment.id,
      tenant_id |-> payment.tenant_id],
     [transaction_id |-> TransactionId(payment.razorpay_payment_id),
      account |-> RevenueAccount(payment_intent.purpose),
      debit |-> NoAmount, credit |-> payment.amount,
      reference_type |-> "payment", reference_id |-> payment.id,
      tenant_id |-> payment.tenant_id] >>

\* status_mapping.get(payment_status, PaymentStatus.PENDING)
StatusMapping(payment_status) ==
  CASE payment_status = "authorized" -> "authorized"
    [] payment_status = "captured" -> "captured"
    [] payment_status = "failed" -> "failed"
    [] OTHER -> "pending"

\* payment_intent.status = value on the row object the handler loaded: the
\* flush of the commit writes the column only when the value differs from the
\* loaded one (an attribute set to its loaded value is no change to flush)
SetIntentStatus(intent, loaded_status, value) ==
  IF value = loaded_status
    THEN intents
    ELSE [intents EXCEPT ![intent].status = value]

\* db.commit() without its await: the coroutine never runs, nothing is written
Commit_NotAwaited(new_payments, new_ledger, intent, loaded_status, value) ==
  UNCHANGED <<intents, payments, ledger>>

\* a commit that persists the Payment row but not the rows added after it
Commit_PaymentAlone(new_payments, new_ledger, intent, loaded_status, value) ==
  /\ payments' = payments \o new_payments
  /\ ledger' = ledger
  /\ intents' = SetIntentStatus(intent, loaded_status, value)

\* a commit whose ledger rows take the place of the rows already there
Commit_LedgerRewritten(new_payments, new_ledger, intent, loaded_status, value) ==
  /\ payments' = payments \o new_payments
  /\ ledger' = IF new_ledger = << >> THEN ledger ELSE new_ledger
  /\ intents' = SetIntentStatus(intent, loaded_status, value)

\* await db.commit(): every pending row and the status change, in one transaction
Commit(new_payments, new_ledger, intent, loaded_status, value) ==
  /\ payments' = payments \o new_payments
  /\ ledger' = ledger \o new_ledger
  /\ intents' = SetIntentStatus(intent, loaded_status, value)

\* the transaction is rolled back and the scheduled tasks die with the request
Rollback == UNCHANGED <<intents, payments, ledger, events, receipt_tasks>>

\* ------------------------------------------------------------- requests
Idle ==
  [pc |-> "idle", kind |-> "none", order |-> NoId, pay |-> NoId, status |-> "none",
   amount |-> 0, intent |-> NoId, loaded_status |-> "none", rows_seen |-> 0]

\* the worker pool hands a request to its first free worker
FreeWorker(w) ==
  /\ req[w].pc = "idle"
  /\ \A v \in Workers : v < w => req[v].pc # "idle"

Respond(code, detail, error) == [code |-> code, error |-> error]

\* payments.receipt_url is nullable: None
NoUrl == << >>

\* background_tasks.add_task(generate_receipt, payment.id)
AddReceiptTask(payment_id) == receipt_tasks \cup {payment_id}

\* background_tasks.add_task(publish_payment_event, type, data)
AddTask(event) == events (+) SetToBag({event})

\* no conversion in hand
NoDecimal == [unit |-> "none", coef |-> 0, exp |-> 0]
NoConversion == [original |-> NoDecimal, current |-> NoDecimal, steps |-> 0]

\* the other services start with empty tables
InitOtherServices ==
  /\ orders = << >>
  /\ rooms = << >>
  /\ bookings = << >>
  /\ coupons = << >>
  /\ redeem_calls = << >>
  /\ refresh_tokens = << >>
  /\ refresh_calls = << >>

\* no POST /intents request in progress
NotCreating == [pc |-> "idle", requests |-> 0, uncommitted |-> << >>]

Init ==
  /\ conversion = NoConversion
  /\ creating = NotCreating
  /\ receipt_tasks = {}
  /\ InitOtherServices
  /\ env_set \in Environments \cup {"unset"}
  /\ intents = << >>
  /\ payments = << >>
  /\ ledger = << >>
  /\ events = EmptyBag
  /\ req = [w \in Workers |-> Idle]
  /\ response = Respond(0, "", "")
  /\ delivered = 0
  /\ subscriptions = << >>
  /\ rent_payments = << >>
  /\ advance_payments = << >>
  /\ channel = "none"
  /\ published = 0
  /\ charges_delivered = {}

\* POST /intents
create_payment_intent(purpose, amount) ==
  /\ Len(intents) < MaxIntents
  /\ \/ /\ intents' = Append(intents,
              [razorpay_order_id |-> Len(intents) + 1, status |-> "pending",
               purpose |-> purpose, amount |-> amount,
               tenant_id |-> request_tenant_id])
        /\ response' = Respond(201, "created", "")
     \/ /\ intents' = intents
        /\ response' = Respond(500, "Failed to create payment intent", "GatewayError")
  /\ UNCHANGED <<env_set, payments, ledger, events, req, delivered>>
  /\ UNCHANGED side_state

\* POST /webhooks/razorpay up to the SELECT of the intent
razorpay_webhook(w, payload, signature) ==
  LET webhook_data == JsonLoads(payload)
      intent == SelectIntent(webhook_data.order_id, 1)
  IN
  /\ FreeWorker(w)
  /\ delivered < MaxDeliveries
  /\ delivered' = delivered + 1
  /\ UNCHANGED <<env_set, intents, payments, ledger, events>>
  /\ UNCHANGED side_state
  /\ IF is_production /\ ~verify_webhook_signature(payload, signature)
       THEN /\ response' = Respond(401, "Invalid webhook signature", "")
            /\ req' = req
     ELSE IF webhook_data.event \notin PaymentEvents
               \/ NoOrderId(webhook_data.order_id)
               \/ intent = NoId
       THEN /\ response' = Respond(200, "Webhook processed successfully", "")
            /\ req' = req
     ELSE /\ response' = response
          /\ req' = [req EXCEPT ![w] =
               [pc |-> "wh_loaded", kind |-> "webhook",
                order |-> webhook_data.order_id, pay |-> webhook_data.id,
                status |-> webhook_data.status, amount |-> webhook_data.amount,
                intent |-> intent, loaded_status |-> intents[intent].status,
                rows_seen |-> Len(payments)]]

\* process_payment_webhook from the status mapping to the end
process_payment_webhook(w) ==
  LET r == req[w]
      new_status == StatusMapping(r.status)
      creates == r.status \in {"authorized", "captured"}
      payment ==
        [id |-> NewPaymentId, razorpay_payment_id |-> r.pay,
         razorpay_order_id |-> r.order, payment_intent_id |-> r.intent,
         tenant_id |-> intents[r.intent].tenant_id,
         amount |-> PaiseToRupees(r.amount), status |-> new_status,
         receipt_url |-> NoUrl]
  IN
  /\ r.pc = "wh_loaded"
  /\ req' = [req EXCEPT ![w] = Idle]
  /\ UNCHANGED <<env_set, delivered>>
  /\ UNCHANGED side_state_but_receipts
  /\ \/ /\ ~(creates /\ PaymentInsertFails(payment))
        /\ IF creates
             THEN Commit(<<payment>>, create_ledger_entries(payment, intents[r.intent]),
                         r.intent, r.loaded_status, new_status)
             ELSE Commit(<< >>, << >>, r.intent, r.loaded_status, new_status)
        /\ receipt_tasks' = IF creates THEN AddReceiptTask(payment.id) ELSE receipt_tasks
        /\ events' = AddTask(
              [type |-> IF new_status = "captured" THEN "payment.succeeded"
                                                   ELSE "payment.failed",
               order |-> r.order, pay |-> r.pay])
        /\ response' = Respond(200, "Webhook processed successfully", "")
     \/ /\ creates /\ PaymentInsertFails(payment)
        /\ response' = Respond(500, "Webhook processing failed", "IntegrityError")
        /\ Rollback
     \/ /\ response' = Respond(500, "Webhook processing failed", "OperationalError")
        /\ Rollback

\* POST /verify up to the SELECT of the intent
verify_payment(w, order, pay, signature) ==
  LET intent == SelectIntent(order, 1) IN
  /\ FreeWorker(w)
  /\ delivered < MaxDeliveries
  /\ delivered' = delivered + 1
  /\ UNCHANGED <<env_set, intents, payments, ledger, events>>
  /\ UNCHANGED side_state
  /\ IF NoOrderId(order) \/ pay = NoId \/ signature = NoSignature
       THEN /\ response' = Respond(400, "Missing required payment verification data", "")
            /\ req' = req
     ELSE IF ~verify_payment_signature(order, pay, signature)
       THEN /\ response' = Respond(400, "Invalid payment signature", "")
            /\ req' = req
     ELSE IF intent = NoId
       THEN /\ response' = Respond(404, "Payment intent not found", "")
            /\ req' = req
     ELSE /\ response' = response
          /\ req' = [req EXCEPT ![w] =
               [pc |-> "vf_loaded", kind |-> "verify", order |-> order, pay |-> pay,
                status |-> "none", amount |-> 0,
                intent |-> intent, loaded_status |-> intents[intent].status,
                rows_seen |-> Len(payments)]]

\* razorpay_client.fetch_payment inside verify_payment
verify_payment_fetch(w) ==
  /\ req[w].pc = "vf_loaded"
  /\ UNCHANGED <<env_set, intents, payments, ledger, events, delivered>>
  /\ UNCHANGED side_state
  /\ \/ \E amount \in PaiseAmounts, status \in FetchedStatuses :
          /\ req' = [req EXCEPT ![w].pc = "vf_fetched", ![w].amount = amount,
                                 ![w].status = status]
          /\ response' = response
     \/ /\ req' = [req EXCEPT ![w] = Idle]
        /\ response' = Respond(500, "Payment verification failed", "FetchError")

\* verify_payment from the Payment row to the end
verify_payment_commit(w) ==
  LET r == req[w]
      payment ==
        [id |-> NewPaymentId, razorpay_payment_id |-> r.pay,
         razorpay_order_id |-> r.order, payment_intent_id |-> r.intent,
         tenant_id |-> intents[r.intent].tenant_id,
         amount |-> PaiseToRupees(r.amount), status |-> "captured",
         receipt_url |-> NoUrl]
  IN
  /\ r.pc = "vf_fetched"
  /\ req' = [req EXCEPT ![w] = Idle]
  /\ UNCHANGED <<env_set, delivered>>
  /\ UNCHANGED side_state_but_receipts
  /\ \/ /\ ~PaymentInsertFails(payment)
        /\ Commit(<<payment>>, create_ledger_entries(payment, intents[r.intent]),
                  r.intent, r.loaded_status, "captured")
        /\ receipt_tasks' = AddReceiptTask(payment.id)
        /\ events' = AddTask(
              [type |-> "payment.succeeded", order |-> r.order, pay |-> r.pay])
        /\ response' = Respond(200, "success", "")
     \/ /\ PaymentInsertFails(payment)
        /\ response' = Respond(500, "Payment verification failed", "IntegrityError")
        /\ Rollback
     \/ /\ response' = Respond(500, "Payment verification failed", "OperationalError")
        /\ Rollback

Payloads ==
  {RawBody(es[1], pay, order, es[2], amount) :
     es \in EventStatusPairs, pay \in PayIds, order \in OrderIds \cup {NoId},
     amount \in PaiseAmounts}

WebhookSignatures(payload) ==
  {Hmac(RAZORPAY_WEBHOOK_SECRET, payload), Hmac("forged", payload), NoSignature}

ClientSignatures(order, pay) ==
  {Hmac(RAZORPAY_KEY_SECRET, <<order, pay>>), Hmac("forged", <<order, pay>>),
   NoSignature}

Next ==
  \/ \E purpose \in Purposes, amount \in IntentAmounts :
       create_payment_intent(purpose, amount)
  \/ \E w \in Workers, payload \in Payloads :
       \E signature \in WebhookSignatures(payload) :
         razorpay_webhook(w, payload, signature)
  \/ \E w \in Workers : process_payment_webhook(w)
  \/ \E w \in Workers, order \in OrderIds \cup {NoId}, pay \in PayIds \cup {NoId} :
       \E signature \in ClientSignatures(order, pay) :
         verify_payment(w, order, pay, signature)
  \/ \E w \in Workers : verify_payment_fetch(w)
  \/ \E w \in Workers : verify_payment_commit(w)

Spec == Init /\ [][Next]_vars

\* intent creation and the /verify entry point alone, on every worker
NextVerify ==
  \/ \E purpose \in Purposes, amount \in IntentAmounts :
       create_payment_intent(purpose, amount)
  \/ \E w \in Workers, order \in OrderIds \cup {NoId}, pay \in PayIds \cup {NoId} :
       \E signature \in ClientSignatures(order, pay) :
         verify_payment(w, order, pay, signature)
  \/ \E w \in Workers : verify_payment_fetch(w)
  \/ \E w \in Workers : verify_payment_commit(w)

SpecVerify == Init /\ [][NextVerify]_vars

\* -------------------------------------------------------- subscriptions
\* Optional[int] total_count / remaining_count left None
NoCount == -1

TotalCounts == {NoCount, 1, 2}

SubscriptionEvents ==
  {"subscription.activated", "subscription.charged", "subscription.cancelled"}

\* the raw body of a subscription webhook: event, subscription id, charge id
SubscriptionPayloads ==
  {<<event, sub, charge>> :
     event \in SubscriptionEvents, sub \in 1..MaxSubscriptions, charge \in PayIds}

\* POST /subscriptions
create_subscription(total_count) ==
  /\ Len(subscriptions) < MaxSubscriptions
  /\ \/ /\ subscriptions' = Append(subscriptions,
              [razorpay_subscription_id |-> Len(subscriptions) + 1,
               status |-> "created", total_count |-> total_count,
               paid_count |-> 0, remaining_count |-> total_count])
        /\ response' = Respond(201, "created", "")
     \/ /\ subscriptions' = subscriptions
        /\ response' = Respond(500, "Failed to create subscription", "GatewayError")
  /\ UNCHANGED <<env_set, intents, payments, ledger, events, req, delivered,
                 rent_payments, advance_payments, channel, published,
                 charges_delivered, conversion, creating, receipt_tasks, other_services>>

\* the first definition of process_subscription_webhook in the module, which
\* the second definition of the same name replaces when the module is loaded
process_subscription_webhook_first_definition(event, razorpay_subscription_id) ==
  LET found == {i \in DOMAIN subscriptions :
                  subscriptions[i].razorpay_subscription_id = razorpay_subscription_id}
  IN IF found = {}
       THEN subscriptions' = subscriptions
       ELSE LET i == CHOOSE j \in found : TRUE
                sub == subscriptions[i]
                paid == sub.paid_count + 1
            IN subscriptions' =
                 [subscriptions EXCEPT ![i] =
                    CASE event = "subscription.activated" ->
                           [sub EXCEPT !.status = "active"]
                      [] event = "subscription.charged" ->
                           [sub EXCEPT
                              !.paid_count = paid,
                              !.remaining_count =
                                 IF sub.total_count # NoCount /\ sub.total_count # 0
                                   THEN sub.total_count - paid
                                   ELSE sub.remaining_count]
                      [] event = "subscription.cancelled" ->
                           [sub EXCEPT !.status = "cancelled"]
                      [] OTHER -> sub]

\* process_subscription_webhook as razorpay_webhook finds it: log and pass
process_subscription_webhook(event, razorpay_subscription_id) ==
  subscriptions' = subscriptions

\* POST /webhooks/razorpay with a subscription event
razorpay_webhook_subscription(payload, signature) ==
  /\ delivered < MaxDeliveries
  /\ delivered' = delivered + 1
  /\ UNCHANGED <<env_set, intents, payments, ledger, events, req,
                 rent_payments, advance_payments, channel, published, conversion, creating, receipt_tasks, other_services>>
  /\ IF is_production /\ ~verify_webhook_signature(payload, signature)
       THEN /\ response' = Respond(401, "Invalid webhook signature", "")
            /\ UNCHANGED <<subscriptions, charges_delivered>>
       ELSE /\ process_subscription_webhook(payload[1], payload[2])
            /\ charges_delivered' =
                 IF payload[1] = "subscription.charged" /\ payload[2] <= Len(subscriptions)
                   THEN charges_delivered \cup {<<payload[2], payload[3]>>}
                   ELSE charges_delivered
            /\ response' = Respond(200, "Webhook processed successfully", "")

NextSubscription ==
  \/ \E total_count \in TotalCounts : create_subscription(total_count)
  \/ \E payload \in SubscriptionPayloads :
       \E signature \in WebhookSignatures(payload) :
         razorpay_webhook_subscription(payload, signature)

SpecSubscription == Init /\ [][NextSubscription]_vars

\* ------------------------------------------------------- event publisher
\* EventPublisher.connect as publish_event calls it while self.channel is None:
\* the channel after it and whether it raised.  declare_exchange failing leaves
\* self.channel set and self.payment_exchange missing.
ConnectOutcomes ==
  {[channel |-> "ready", raised |-> FALSE],
   [channel |-> "none", raised |-> TRUE],
   [channel |-> "no_exchange", raised |-> TRUE]}

\* EventPublisher.publish_event: the channel after it, whether the message
\* reached the exchange, whether it raised
PublishOutcomes ==
  LET connected ==
        IF channel = "none" THEN ConnectOutcomes
        ELSE {[channel |-> channel, raised |-> FALSE]}
  IN {[channel |-> c.channel, sent |-> FALSE, raised |-> TRUE] :
        c \in {x \in connected : x.raised \/ x.channel = "no_exchange"}}
       \cup {[channel |-> c.channel, sent |-> sent, raised |-> ~sent] :
               c \in {x \in connected : ~x.raised /\ x.channel = "ready"},
               sent \in BOOLEAN}

\* publish_payment_event letting the exception of publish_event out
except_Exception_reraised ==
  /\ response' = Respond(500, "Internal Server Error", "PublishError")
  /\ UNCHANGED <<intents, payments, ledger, req>>

\* publish_payment_event: except Exception: log, do not re-raise
except_Exception ==
  UNCHANGED <<intents, payments, ledger, req, response>>

\* one scheduled publish_payment_event task runs, after its response was sent
publish_payment_event ==
  \E e \in BagToSet(events), o \in PublishOutcomes :
    /\ events' = events (-) SetToBag({e})
    /\ channel' = o.channel
    /\ published' = IF o.sent THEN published + 1 ELSE published
    /\ IF o.raised
         THEN except_Exception
         ELSE UNCHANGED <<intents, payments, ledger, req, response>>
    /\ UNCHANGED <<env_set, delivered, subscriptions, rent_payments, advance_payments,
                   charges_delivered, conversion, creating, receipt_tasks, other_services>>

\* the payment handlers on a single worker, with the background tasks running
NextSerial ==
  \/ \E purpose \in Purposes, amount \in IntentAmounts :
       create_payment_intent(purpose, amount)
  \/ \E payload \in Payloads :
       \E signature \in WebhookSignatures(payload) :
         razorpay_webhook(1, payload, signature)
  \/ process_payment_webhook(1)
  \/ \E order \in OrderIds \cup {NoId}, pay \in PayIds \cup {NoId} :
       \E signature \in ClientSignatures(order, pay) :
         verify_payment(1, order, pay, signature)
  \/ verify_payment_fetch(1)
  \/ verify_payment_commit(1)
  \/ publish_payment_event

SpecSerial == Init /\ [][NextSerial]_vars

\* ------------------------------------------------------------- receipts
\* the address _upload_receipt returns for the stored receipt
ReceiptUrl(payment_id) == <<"receipts", payment_id>>

\* select(Payment).where(Payment.id == payment_id) in the task's own session
PaymentsById(payment_id) == {i \in DOMAIN payments : payments[i].id = payment_id}

\* a task that writes the address on every Payment row
SetReceiptUrl_EveryPayment(payment_id, receipt_url) ==
  [i \in DOMAIN payments |-> [payments[i] EXCEPT !.receipt_url = receipt_url]]

\* payment.receipt_url = receipt_url; await db.commit()
SetReceiptUrl(payment_id, receipt_url) ==
  [i \in DOMAIN payments |->
     IF payments[i].id = payment_id
       THEN [payments[i] EXCEPT !.receipt_url = receipt_url]
       ELSE payments[i]]

\* the generate_receipt background task: the receipt is stored and its address
\* written, or the payment is not found or an exception is logged and dropped
generate_receipt(payment_id) ==
  /\ payment_id \in receipt_tasks
  /\ receipt_tasks' = receipt_tasks \ {payment_id}
  /\ \/ /\ PaymentsById(payment_id) # {}
        /\ payments' = SetReceiptUrl(payment_id, ReceiptUrl(payment_id))
     \/ payments' = payments
  /\ UNCHANGED <<env_set, intents, ledger, events, req, response, delivered>>
  /\ UNCHANGED side_state_but_receipts

NextReceipt ==
  \/ \E purpose \in Purposes, amount \in IntentAmounts :
       create_payment_intent(purpose, amount)
  \/ \E payload \in Payloads :
       \E signature \in WebhookSignatures(payload) :
         razorpay_webhook(1, payload, signature)
  \/ process_payment_webhook(1)
  \/ \E order \in OrderIds \cup {NoId}, pay \in PayIds \cup {NoId} :
       \E signature \in ClientSignatures(order, pay) :
         verify_payment(1, order, pay, signature)
  \/ verify_payment_fetch(1)
  \/ verify_payment_commit(1)
  \/ \E payment_id \in receipt_tasks : generate_receipt(payment_id)

SpecReceipt == Init /\ [][NextReceipt]_vars

\* --------------------------------------------------------- ledger poster
\* the purposes CreatePaymentIntentRequest lets through
AllowedPurposes == {"rent", "deposit", "mess", "maintenance", "other"}

\* Payment.amount values handed to create_ledger_entries
PostedAmounts == {<<500, 0>>, <<1234, 56>>}

\* create_ledger_entries applied to a captured Payment of an intent of the
\* given purpose, both committed with the rows it adds
post_ledger_entries(purpose, amount) ==
  LET payment_intent ==
        [razorpay_order_id |-> Len(intents) + 1, status |-> "captured",
         purpose |-> purpose, amount |-> amount, tenant_id |-> request_tenant_id]
      payment ==
        [id |-> NewPaymentId, razorpay_payment_id |-> Len(payments) + 1,
         tenant_id |-> request_tenant_id,
         razorpay_order_id |-> Len(intents) + 1,
         payment_intent_id |-> Len(intents) + 1,
         amount |-> amount, status |-> "captured", receipt_url |-> NoUrl]
  IN /\ Len(payments) < MaxPostings
     /\ intents' = Append(intents, payment_intent)
     /\ payments' = Append(payments, payment)
     /\ ledger' = ledger \o create_ledger_entries(payment, payment_intent)
     /\ UNCHANGED <<env_set, events, req, response, delivered>>
     /\ UNCHANGED side_state

NextPoster ==
  \E purpose \in AllowedPurposes, amount \in PostedAmounts :
    post_ledger_entries(purpose, amount)

SpecPoster == Init /\ [][NextPoster]_vars

\* ------------------------------------------------------- dummy payments
\* request.amount of the dummy endpoints (Decimal, gt=0)
DummyAmounts == {<<3000, 0>>, <<1500, 50>>}

\* POST /dummy/rent
create_dummy_rent_payment(amount) ==
  /\ Len(rent_payments) + Len(advance_payments) < MaxDummyPayments
  /\ \/ /\ intents' = Append(intents,
              [razorpay_order_id |-> NoId, status |-> "captured",
               purpose |-> "rent", amount |-> amount,
               tenant_id |-> request_tenant_id])
        /\ rent_payments' = Append(rent_payments,
              [payment_intent_id |-> Len(intents) + 1, amount |-> amount,
               status |-> "captured"])
        /\ events' = AddTask([type |-> "rent.payment.recorded", order |-> NoId,
                              pay |-> NoId])
        /\ response' = Respond(201, "created", "")
     \/ /\ response' = Respond(500, "Internal Server Error", "OperationalError")
        /\ UNCHANGED <<intents, rent_payments, events>>
  /\ UNCHANGED <<env_set, payments, ledger, req, delivered, subscriptions,
                 advance_payments, channel, published, charges_delivered, conversion, creating, receipt_tasks, other_services>>

\* POST /dummy/advance
create_dummy_advance_payment(amount) ==
  /\ Len(rent_payments) + Len(advance_payments) < MaxDummyPayments
  /\ \/ /\ advance_payments' = Append(advance_payments, [amount |-> amount])
        /\ events' = AddTask([type |-> "advance.payment.recorded", order |-> NoId,
                              pay |-> NoId])
        /\ response' = Respond(201, "created", "")
     \/ /\ response' = Respond(500, "Internal Server Error", "IntegrityError")
        /\ UNCHANGED <<advance_payments, events>>
  /\ UNCHANGED <<env_set, intents, payments, ledger, req, delivered, subscriptions,
                 rent_payments, channel, published, charges_delivered, conversion, creating, receipt_tasks, other_services>>

NextDummy ==
  \/ \E amount \in DummyAmounts : create_dummy_rent_payment(amount)
  \/ \E amount \in DummyAmounts : create_dummy_advance_payment(amount)
  \/ publish_payment_event

SpecDummy == Init /\ [][NextDummy]_vars

\* the gateway-facing handlers next to the dummy rent endpoint, whose intents
\* have no order id (one rent payment recorded at most)
NextNullOrder ==
  \/ \E purpose \in Purposes, amount \in IntentAmounts :
       create_payment_intent(purpose, amount)
  \/ \E amount \in DummyAmounts :
       rent_payments = << >> /\ create_dummy_rent_payment(amount)
  \/ \E payload \in Payloads :
       \E signature \in WebhookSignatures(payload) :
         razorpay_webhook(1, payload, signature)
  \/ process_payment_webhook(1)
  \/ \E order \in OrderIds \cup {NoId}, pay \in PayIds \cup {NoId} :
       \E signature \in ClientSignatures(order, pay) :
         verify_payment(1, order, pay, signature)
  \/ verify_payment_fetch(1)
  \/ verify_payment_commit(1)

SpecNullOrder == Init /\ [][NextNullOrder]_vars

\* ------------------------------------------- POST /intents, step by step
\* order ids the gateway may answer create_order with
GatewayOrderIds == 1..MaxOrders

\* payment_intents.razorpay_order_id without unique=True
OrderIdTaken_NotUnique(order_id) == FALSE

\* payment_intents.razorpay_order_id: unique=True
OrderIdTaken(order_id) ==
  \E i \in DOMAIN intents : intents[i].razorpay_order_id = order_id

\* db.add(payment_intent); await db.flush(): the INSERT runs in the session's
\* transaction, which stays open
create_payment_intent_flush(purpose, amount) ==
  /\ creating.pc = "idle"
  /\ creating.requests < MaxCreateRequests
  /\ creating' = [pc |-> "flushed", requests |-> creating.requests + 1,
                  uncommitted |-> << [razorpay_order_id |-> NoId, status |-> "created",
                                      purpose |-> purpose, amount |-> amount,
                                      tenant_id |-> request_tenant_id] >>]
  /\ UNCHANGED <<env_set, intents, payments, ledger, events, req, response,
                 delivered, subscriptions, rent_payments, advance_payments,
                 channel, published, charges_delivered, conversion, receipt_tasks, other_services>>

\* razorpay_client.create_order(...): the request to the gateway is on the wire
create_payment_intent_create_order ==
  /\ creating.pc = "flushed"
  /\ creating' = [creating EXCEPT !.pc = "create_order"]
  /\ UNCHANGED <<env_set, intents, payments, ledger, events, req, response,
                 delivered, subscriptions, rent_payments, advance_payments,
                 channel, published, charges_delivered, conversion, receipt_tasks, other_services>>

\* the gateway answers: order id and PENDING are set on the row and the
\* transaction is committed, or the except branch rolls it back
create_payment_intent_commit ==
  /\ creating.pc = "create_order"
  /\ creating' = [creating EXCEPT !.pc = "idle", !.uncommitted = << >>]
  /\ \/ \E order_id \in GatewayOrderIds :
          IF OrderIdTaken(order_id)
            THEN /\ intents' = intents
                 /\ response' = Respond(500, "Failed to create payment intent",
                                        "IntegrityError")
            ELSE /\ intents' = Append(intents,
                       [creating.uncommitted[1] EXCEPT
                          !.razorpay_order_id = order_id, !.status = "pending"])
                 /\ response' = Respond(201, "created", "")
     \/ /\ intents' = intents
        /\ response' = Respond(500, "Failed to create payment intent", "GatewayError")
  /\ UNCHANGED <<env_set, payments, ledger, events, req, delivered, subscriptions,
                 rent_payments, advance_payments, channel, published,
                 charges_delivered, conversion, receipt_tasks, other_services>>

NextIntents ==
  \/ \E purpose \in Purposes, amount \in IntentAmounts :
       create_payment_intent_flush(purpose, amount)
  \/ create_payment_intent_create_order
  \/ create_payment_intent_commit
  \/ \E amount \in DummyAmounts : create_dummy_rent_payment(amount)

SpecIntents == Init /\ [][NextIntents]_vars

\* ------------------------------------------------- unit conversions
\* A Decimal in the adapter is coef / 10^exp; an int of paise has exp 0 and
\* unit "paise".
MaxPlaces == 3

RECURSIVE Pow10(_)
Pow10(n) == IF n = 0 THEN 1 ELSE 10 * Pow10(n - 1)

\* Decimal division is exact here; the quotient keeps no trailing zeros
\* beyond the ideal exponent 0
RECURSIVE Reduced(_, _)
Reduced(coef, exp) ==
  IF exp > 0 /\ coef % 10 = 0 THEN Reduced(coef \div 10, exp - 1)
  ELSE [unit |-> "rupees", coef |-> coef, exp |-> exp]

\* int(amount * 100): the product is exact, int() drops the fraction
rupees_to_paise(amount) ==
  [unit |-> "paise", coef |-> (amount.coef * PaisePerRupee) \div Pow10(amount.exp),
   exp |-> 0]

\* Decimal(amount) // 100
paise_to_rupees_floor_division(amount) ==
  [unit |-> "rupees", coef |-> amount.coef \div PaisePerRupee, exp |-> 0]

\* Decimal(amount) / 100
paise_to_rupees(amount) == Reduced(amount.coef, 2)

\* Decimal.__eq__ compares values, not representations
DecimalEq(a, b) == a.coef * Pow10(b.exp) = b.coef * Pow10(a.exp)

RupeeInputs ==
  {[unit |-> "rupees", coef |-> c, exp |-> e] : c \in 0..MaxPaise, e \in 0..MaxPlaces}

PaiseInputs == {[unit |-> "paise", coef |-> c, exp |-> 0] : c \in 0..MaxPaise}

InitConversion ==
  /\ env_set \in Environments \cup {"unset"}
  /\ intents = << >>
  /\ payments = << >>
  /\ ledger = << >>
  /\ events = EmptyBag
  /\ req = [w \in Workers |-> Idle]
  /\ response = Respond(0, "", "")
  /\ delivered = 0
  /\ subscriptions = << >>
  /\ rent_payments = << >>
  /\ advance_payments = << >>
  /\ channel = "none"
  /\ published = 0
  /\ charges_delivered = {}
  /\ creating = NotCreating
  /\ receipt_tasks = {}
  /\ InitOtherServices
  /\ \E amount \in RupeeInputs \cup PaiseInputs :
       conversion = [original |-> amount, current |-> amount, steps |-> 0]

convert_rupees_to_paise ==
  /\ conversion.current.unit = "rupees"
  /\ conversion.steps < 2
  /\ conversion' = [conversion EXCEPT !.current = rupees_to_paise(@),
                                       !.steps = @ + 1]
  /\ UNCHANGED <<env_set, intents, payments, ledger, events, req, response,
                 delivered, subscriptions, rent_payments, advance_payments,
                 channel, published, charges_delivered, creating, receipt_tasks, other_services>>

convert_paise_to_rupees ==
  /\ conversion.current.unit = "paise"
  /\ conversion.steps < 2
  /\ conversion' = [conversion EXCEPT !.current = paise_to_rupees(@),
                                       !.steps = @ + 1]
  /\ UNCHANGED <<env_set, intents, payments, ledger, events, req, response,
                 delivered, subscriptions, rent_payments, advance_payments,
                 channel, published, charges_delivered, creating, receipt_tasks, other_services>>

NextConversion ==
  \/ convert_rupees_to_paise
  \/ convert_paise_to_rupees

SpecConversion == InitConversion /\ [][NextConversion]_vars

\* ------------------------------------------------------- orders service
MaxFoodOrders == 2

OrderStatus ==
  {"pending", "confirmed", "preparing", "ready", "delivered", "cancelled"}

OrderIdsAsked == 1..(MaxFoodOrders + 1)

\* Order.is_cancellable
is_cancellable(order) == order.status \in {"pending", "confirmed"}

\* POST /orders: the row is inserted with the column default, PENDING
create_order ==
  /\ Len(orders) < MaxFoodOrders
  /\ orders' = Append(orders, [status |-> "pending"])
  /\ response' = Respond(201, "created", "")
  /\ UNCHANGED not_orders

\* PUT /orders/{order_id}/cancel
cancel_order(order_id) ==
  /\ UNCHANGED not_orders
  /\ IF order_id \notin DOMAIN orders
       THEN /\ response' = Respond(404, "Order not found", "")
            /\ orders' = orders
     ELSE IF ~is_cancellable(orders[order_id])
       THEN /\ response' = Respond(400, "Order cannot be cancelled", "")
            /\ orders' = orders
     ELSE /\ orders' = [orders EXCEPT ![order_id].status = "cancelled"]
          /\ response' = Respond(200, "Order cancelled successfully", "")

\* PUT /orders/{order_id}/kitchen
update_order_status(order_id, status) ==
  /\ UNCHANGED not_orders
  /\ IF order_id \notin DOMAIN orders
       THEN /\ response' = Respond(404, "Order not found", "")
            /\ orders' = orders
     ELSE /\ orders' = [orders EXCEPT ![order_id].status = status]
          /\ response' = Respond(200, "updated", "")

NextOrders ==
  \/ create_order
  \/ \E order_id \in OrderIdsAsked : cancel_order(order_id)
  \/ \E order_id \in OrderIdsAsked, status \in OrderStatus :
       update_order_status(order_id, status)

SpecOrders == Init /\ [][NextOrders]_vars

\* ------------------------------------------------------ booking service
MaxRooms == 1
MaxCapacity == 2
MaxBookingRequests == 2
MaxOccupancy == 3

BookingStatus == {"pending", "confirmed", "rejected", "cancelled"}

\* RoomCreate.capacity, for rooms that can take somebody
RoomCapacities == 1..MaxCapacity

RoomIdsAsked == 1..(MaxRooms + 1)

RequestIdsAsked == 1..(MaxBookingRequests + 1)

\* room.current_occupancy += 1; is_available cleared when the room is full
Occupy(room_id) ==
  [rooms EXCEPT ![room_id] =
     [@ EXCEPT !.current_occupancy = @ + 1,
               !.is_available = IF rooms[room_id].current_occupancy + 1
                                     >= rooms[room_id].capacity
                                  THEN FALSE ELSE @]]

\* POST /rooms
create_room(capacity) ==
  /\ Len(rooms) < MaxRooms
  /\ rooms' = Append(rooms, [capacity |-> capacity, current_occupancy |-> 0,
                             is_available |-> TRUE])
  /\ response' = Respond(201, "created", "")
  /\ UNCHANGED bookings
  /\ UNCHANGED not_booking

\* POST /requests
create_request(room_id) ==
  /\ Len(bookings) < MaxBookingRequests
  /\ UNCHANGED rooms
  /\ UNCHANGED not_booking
  /\ IF room_id \notin DOMAIN rooms
       THEN /\ response' = Respond(404, "Room not found", "")
            /\ bookings' = bookings
     ELSE IF ~rooms[room_id].is_available
       THEN /\ response' = Respond(400, "Room is not available", "")
            /\ bookings' = bookings
     ELSE IF rooms[room_id].current_occupancy >= rooms[room_id].capacity
       THEN /\ response' = Respond(400, "Room is at full capacity", "")
            /\ bookings' = bookings
     ELSE /\ bookings' = Append(bookings,
                 [room_id |-> room_id, status |-> "pending", occupied |-> 0])
          /\ response' = Respond(201, "created", "")

\* PUT /requests/{request_id}; occupied counts the units the request has added
\* to its room
update_request(request_id, status) ==
  /\ UNCHANGED not_booking
  /\ IF request_id \notin DOMAIN bookings
       THEN /\ response' = Respond(404, "Booking request not found", "")
            /\ UNCHANGED <<rooms, bookings>>
     ELSE /\ status = "confirmed"
               => rooms[bookings[request_id].room_id].current_occupancy < MaxOccupancy
          /\ response' = Respond(200, "updated", "")
          /\ IF status = "confirmed"
               THEN /\ rooms' = Occupy(bookings[request_id].room_id)
                    /\ bookings' = [bookings EXCEPT ![request_id].status = status,
                                                    ![request_id].occupied = @ + 1]
               ELSE /\ rooms' = rooms
                    /\ bookings' = [bookings EXCEPT ![request_id].status = status]

\* POST /requests/{request_id}/confirm
confirm_request(request_id) ==
  /\ UNCHANGED not_booking
  /\ IF request_id \notin DOMAIN bookings
       THEN /\ response' = Respond(404, "Booking request not found", "")
            /\ UNCHANGED <<rooms, bookings>>
     ELSE IF bookings[request_id].status # "pending"
       THEN /\ response' = Respond(400, "Cannot confirm request", "")
            /\ UNCHANGED <<rooms, bookings>>
     ELSE /\ rooms[bookings[request_id].room_id].current_occupancy < MaxOccupancy
          /\ rooms' = Occupy(bookings[request_id].room_id)
          /\ bookings' = [bookings EXCEPT ![request_id].status = "confirmed",
                                          ![request_id].occupied = @ + 1]
          /\ response' = Respond(200, "confirmed", "")

\* DELETE /requests/{request_id}
cancel_request(request_id) ==
  /\ UNCHANGED not_booking
  /\ UNCHANGED rooms
  /\ IF request_id \notin DOMAIN bookings
       THEN /\ response' = Respond(404, "Booking request not found", "")
            /\ bookings' = bookings
     ELSE /\ bookings' = [bookings EXCEPT ![request_id].status = "cancelled"]
          /\ response' = Respond(204, "", "")

NextBooking ==
  \/ \E capacity \in RoomCapacities : create_room(capacity)
  \/ \E room_id \in RoomIdsAsked : create_request(room_id)
  \/ \E request_id \in RequestIdsAsked, status \in BookingStatus :
       update_request(request_id, status)
  \/ \E request_id \in RequestIdsAsked : confirm_request(request_id)
  \/ \E request_id \in RequestIdsAsked : cancel_request(request_id)

SpecBooking == Init /\ [][NextBooking]_vars

\* ------------------------------------------------------------ mess service
\* src/services/mess/app/api/coupons.py, and the coupon branch of create_order
\* in src/services/orders/app/api/orders.py.  Every request runs in a session
\* of its own against the service's PostgreSQL database; a handler gives up
\* control at each await, so another request may run between the SELECT of
\* redeem_coupon and its commit.

\* coupons issued
MaxCoupons == 1

\* redeem requests, direct or on behalf of an order
MaxRedeemCalls == 2

\* the coupon ids a request may name: the issued ones and one unknown
CouponIdsAsked == 1..(MaxCoupons + 1)

\* who sends the redeem request
RedeemVia == {"client", "create_order"}

\* a request that has not answered yet
NoAnswer == 0

\* POST /coupons, one coupon
issue_coupons ==
  /\ Len(coupons) < MaxCoupons
  /\ coupons' = Append(coupons, [is_used |-> FALSE])
  /\ response' = Respond(201, "issued", "")
  /\ UNCHANGED <<redeem_calls, not_mess>>

\* a redeem request is on its way: sent by a client to POST /coupons/redeem,
\* or asked for by POST /orders with a coupon_id, which validates first
redeem_request(coupon_id, via) ==
  /\ Len(redeem_calls) < MaxRedeemCalls
  /\ redeem_calls' = Append(redeem_calls,
       [coupon_id |-> coupon_id, via |-> via,
        at |-> IF via = "create_order" THEN "validate" ELSE "select",
        status_code |-> NoAnswer, detail |-> ""])
  /\ UNCHANGED <<coupons, response, not_mess>>

\* the redeem request c answers
Answer(c, status_code, detail) ==
  /\ redeem_calls' = [redeem_calls EXCEPT ![c].at = "done",
                                          ![c].status_code = status_code,
                                          ![c].detail = detail]
  /\ response' = Respond(status_code, detail, "")

\* GET /coupons/validate as create_order calls it: an unknown or used coupon
\* ends the order with 400 and redeem is never sent; a valid one sends it
validate_coupon(c) ==
  /\ c \in DOMAIN redeem_calls
  /\ redeem_calls[c].at = "validate"
  /\ UNCHANGED <<coupons, not_mess>>
  /\ IF redeem_calls[c].coupon_id \notin DOMAIN coupons
       THEN Answer(c, 400, "Invalid coupon: not_found")
     ELSE IF coupons[redeem_calls[c].coupon_id].is_used
       THEN Answer(c, 400, "Invalid coupon: already_used")
     ELSE /\ redeem_calls' = [redeem_calls EXCEPT ![c].at = "select"]
          /\ response' = response

\* redeem_coupon up to its commit: the SELECT and the two checks on its result
redeem_coupon_select(c) ==
  /\ c \in DOMAIN redeem_calls
  /\ redeem_calls[c].at = "select"
  /\ UNCHANGED <<coupons, not_mess>>
  /\ IF redeem_calls[c].coupon_id \notin DOMAIN coupons
       THEN Answer(c, 404, "Coupon not found")
     ELSE IF coupons[redeem_calls[c].coupon_id].is_used
       THEN Answer(c, 400, "Coupon already used")
     ELSE /\ redeem_calls' = [redeem_calls EXCEPT ![c].at = "commit"]
          /\ response' = response

\* redeem_coupon from its commit on: the UPDATE of the row by primary key,
\* the refresh and the 200 answer
redeem_coupon_commit(c) ==
  /\ c \in DOMAIN redeem_calls
  /\ redeem_calls[c].at = "commit"
  /\ coupons' = [coupons EXCEPT ![redeem_calls[c].coupon_id].is_used = TRUE]
  /\ Answer(c, 200, "")
  /\ UNCHANGED not_mess

NextMess ==
  \/ issue_coupons
  \/ \E coupon_id \in CouponIdsAsked, via \in RedeemVia : redeem_request(coupon_id, via)
  \/ \E c \in 1..MaxRedeemCalls : validate_coupon(c)
  \/ \E c \in 1..MaxRedeemCalls : redeem_coupon_select(c)
  \/ \E c \in 1..MaxRedeemCalls : redeem_coupon_commit(c)

SpecMess == Init /\ [][NextMess]_vars

\* ------------------------------------------------------------ auth service
\* src/services/auth/app/api/auth.py.  Every request runs in a session of its
\* own (core/database.py: get_db) at the engine's default isolation; a handler
\* gives up control at each await, so another request may run between the
\* SELECT of refresh_token and its commit.  The registered users are active:
\* no handler here deactivates one.

\* registered users
MaxUsers == 1

\* POST /login requests served
MaxLogins == 1

\* POST /refresh requests
MaxRefreshCalls == 2

Users == 1..MaxUsers

\* RefreshToken.is_valid
is_valid(token_record) == ~token_record.is_revoked /\ ~token_record.is_expired

\* the RefreshToken row login and refresh_token add for a new token
NewRefreshToken(user_id) ==
  [user_id |-> user_id, is_revoked |-> FALSE, is_expired |-> FALSE, logins |-> 0]

\* the rows that came from POST /login (the others came from POST /refresh)
LoginsServed == Cardinality({t \in DOMAIN refresh_tokens : refresh_tokens[t].logins = 1})

\* the jti a /refresh request may carry: those on record and one without a row
JtiAsked == 1..(MaxLogins + MaxRefreshCalls + 1)

\* POST /login with the right password: a new refresh token goes on record
login(user_id) ==
  /\ LoginsServed < MaxLogins
  /\ refresh_tokens' = Append(refresh_tokens,
                              [NewRefreshToken(user_id) EXCEPT !.logins = 1])
  /\ response' = Respond(200, "logged in", "")
  /\ UNCHANGED <<refresh_calls, not_auth>>

\* expires_at of a token on record passes (RefreshToken.is_expired)
token_expires(jti) ==
  /\ jti \in DOMAIN refresh_tokens
  /\ ~refresh_tokens[jti].is_expired
  /\ refresh_tokens' = [refresh_tokens EXCEPT ![jti].is_expired = TRUE]
  /\ UNCHANGED <<refresh_calls, response, not_auth>>

\* a POST /refresh carrying the token jti arrives
refresh_request(jti) ==
  /\ Len(refresh_calls) < MaxRefreshCalls
  /\ refresh_calls' = Append(refresh_calls,
       [jti |-> jti, at |-> "select", status_code |-> NoAnswer])
  /\ UNCHANGED <<refresh_tokens, response, not_auth>>

\* the /refresh request c answers
RefreshAnswer(c, status_code, detail) ==
  /\ refresh_calls' = [refresh_calls EXCEPT ![c].at = "done",
                                            ![c].status_code = status_code]
  /\ response' = Respond(status_code, detail, "")

\* refresh_token up to its commit: the SELECT of the token row, the is_valid
\* check, the SELECT of the user
refresh_token_select(c) ==
  /\ c \in DOMAIN refresh_calls
  /\ refresh_calls[c].at = "select"
  /\ UNCHANGED <<refresh_tokens, not_auth>>
  /\ IF \/ refresh_calls[c].jti \notin DOMAIN refresh_tokens
        \/ ~is_valid(refresh_tokens[refresh_calls[c].jti])
       THEN RefreshAnswer(c, 401, "Invalid or expired refresh token")
     ELSE /\ refresh_calls' = [refresh_calls EXCEPT ![c].at = "commit"]
          /\ response' = response

\* refresh_token from its commit on: the old row is revoked, the new token's
\* row is added, the request answers 200 with the new token
refresh_token_commit(c) ==
  /\ c \in DOMAIN refresh_calls
  /\ refresh_calls[c].at = "commit"
  /\ refresh_tokens' =
       Append([refresh_tokens EXCEPT ![refresh_calls[c].jti].is_revoked = TRUE],
              NewRefreshToken(refresh_tokens[refresh_calls[c].jti].user_id))
  /\ RefreshAnswer(c, 200, "")
  /\ UNCHANGED not_auth

\* POST /change-password with the right current password: the new hash is
\* committed, then every refresh token row of the user is revoked
change_password(user_id) ==
  /\ refresh_tokens' =
       [t \in DOMAIN refresh_tokens |->
          IF refresh_tokens[t].user_id = user_id
            THEN [refresh_tokens[t] EXCEPT !.is_revoked = TRUE]
            ELSE refresh_tokens[t]]
  /\ response' = Respond(200, "Password changed successfully", "")
  /\ UNCHANGED <<refresh_calls, not_auth>>

NextAuth ==
  \/ \E user_id \in Users : login(user_id)
  \/ \E jti \in JtiAsked : token_expires(jti)
  \/ \E jti \in JtiAsked : refresh_request(jti)
  \/ \E c \in 1..MaxRefreshCalls : refresh_token_select(c)
  \/ \E c \in 1..MaxRefreshCalls : refresh_token_commit(c)
  \/ \E user_id \in Users : change_password(user_id)

SpecAuth == Init /\ [][NextAuth]_vars

\* ------------------------------------------------------------ properties
LedgerRowsOf(transaction_id) ==
  {i \in DOMAIN ledger : ledger[i].transaction_id = transaction_id}

Hundredths(amount) ==
  IF amount = NoAmount THEN 0 ELSE amount[1] * PaisePerRupee + amount[2]

RECURSIVE SumDebit(_, _)
SumDebit(transaction_id, i) ==
  IF i > Len(ledger) THEN 0
  ELSE (IF ledger[i].transaction_id = transaction_id
          THEN Hundredths(ledger[i].debit) ELSE 0)
       + SumDebit(transaction_id, i + 1)

RECURSIVE SumCredit(_, _)
SumCredit(transaction_id, i) ==
  IF i > Len(ledger) THEN 0
  ELSE (IF ledger[i].transaction_id = transaction_id
          THEN Hundredths(ledger[i].credit) ELSE 0)
       + SumCredit(transaction_id, i + 1)

\* worker w ends its request in this step by attempting the commit
CommitStep(w) ==
  /\ req[w].pc \in {"wh_loaded", "vf_fetched"}
  /\ req'[w].pc = "idle"

\* the commit of this step did not fail for a reason of the database itself
NoOutage == response'.error # "OperationalError"

\* C1: whatever deliveries carry one external payment id, the committed state
\* holds at most one Payment row with it, that row comes with exactly one
\* ledger pair under PAY_<id> (one debit and one credit of the row's amount),
\* and once payment.succeeded was scheduled for the id the row is there.
C1_OnePaymentOneLedgerPair ==
  \A pay \in PayIds :
    LET rows == PaymentsWithId(pay)
        legs == LedgerRowsOf(TransactionId(pay))
    IN /\ Cardinality(rows) <= 1
       /\ rows = {} => legs = {}
       /\ \A i \in rows :
            /\ Cardinality(legs) = 2
            /\ \E d, c \in legs :
                 /\ d # c
                 /\ ledger[d].debit = payments[i].amount
                 /\ ledger[d].credit = NoAmount
                 /\ ledger[c].credit = payments[i].amount
                 /\ ledger[c].debit = NoAmount
       /\ (\E e \in BagToSet(events) : e.pay = pay /\ e.type = "payment.succeeded")
            => Cardinality(rows) = 1

\* a redelivery was turned away by the unique index and one row with its pair stands
C1_Witness ==
  /\ response.error = "IntegrityError"
  /\ \E pay \in PayIds :
       /\ Cardinality(PaymentsWithId(pay)) = 1
       /\ Cardinality(LedgerRowsOf(TransactionId(pay))) = 2

\* C2: an authenticated event whose external payment id already has a Payment
\* row is answered with success and adds no Payment, no ledger row and no
\* domain event (a failure of the database itself aside).
C2_DuplicateIsSuccessfulNoOp ==
  [][\A w \in Workers :
       (CommitStep(w) /\ PaymentsWithId(req[w].pay) # {} /\ NoOutage)
         => /\ response'.code = 200
            /\ UNCHANGED <<payments, ledger, events>>]_vars

\* C3: in every committed state the debits of each transaction_id sum to its credits.
C3_LedgerBalanced ==
  \A i \in DOMAIN ledger :
    SumDebit(ledger[i].transaction_id, 1) = SumCredit(ledger[i].transaction_id, 1)

\* a captured amount has been posted
C3_Witness ==
  \E i \in DOMAIN ledger :
    ledger[i].debit # NoAmount /\ Hundredths(ledger[i].debit) > 0

\* C4: a step that adds a Payment adds exactly that row together with its two
\* ledger rows, ledger rows are never added without their Payment, an intent
\* becomes authorized or captured only in the step that adds its Payment, and
\* a request answered 500 leaves intents, payments and ledger as they were.
C4_AtomicUnit ==
  [][/\ (payments' # payments \/ ledger' # ledger) =>
          /\ Len(payments') = Len(payments) + 1
          /\ SubSeq(payments', 1, Len(payments)) = payments
          /\ Len(ledger') = Len(ledger) + 2
          /\ SubSeq(ledger', 1, Len(ledger)) = ledger
          /\ \A j \in (Len(ledger) + 1)..(Len(ledger) + 2) :
               /\ ledger'[j].reference_id = payments'[Len(payments')].id
               /\ ledger'[j].transaction_id =
                    TransactionId(payments'[Len(payments')].razorpay_payment_id)
     /\ \A i \in DOMAIN intents :
          (intents'[i].status # intents[i].status
             /\ intents'[i].status \in {"authorized", "captured"})
            => /\ Len(payments') = Len(payments) + 1
               /\ payments'[Len(payments')].payment_intent_id = i
               /\ payments'[Len(payments')].status = intents'[i].status
     /\ (\E w \in Workers : CommitStep(w) /\ response'.code = 500)
          => UNCHANGED <<intents, payments, ledger, events>>
    ]_vars

\* one event is applied with all its rows and a later commit failed without trace
C4_Witness ==
  /\ response.error = "OperationalError"
  /\ Len(payments) = 1
  /\ Len(ledger) = 2
  /\ intents[payments[1].payment_intent_id].status = payments[1].status
  /\ BagCardinality(events) = 1

\* C5: an authorized event applied to an order whose intent is CAPTURED leaves
\* the intent CAPTURED and is answered without error.
C5_NoRegressionToAuthorized ==
  [][\A w \in Workers :
       (/\ CommitStep(w)
        /\ req[w].kind = "webhook"
        /\ req[w].status = "authorized"
        /\ intents[req[w].intent].status = "captured"
        /\ NoOutage)
         => /\ intents'[req[w].intent].status = "captured"
            /\ response'.code = 200]_vars

\* the edges of the intent state machine, and the moves made of one or more of them
StatusEdges ==
  {<<"created", "pending">>, <<"pending", "authorized">>, <<"pending", "failed">>,
   <<"authorized", "captured">>, <<"captured", "refunded">>,
   <<"captured", "partially_refunded">>}
    \cup {<<s, "cancelled">> : s \in {"created", "pending", "authorized"}}

ForwardMoves ==
  StatusEdges
    \cup {<<"created", "authorized">>, <<"created", "failed">>, <<"created", "captured">>,
          <<"pending", "captured">>}

\* C6: every change of a PaymentIntent's status follows the edges of the state
\* machine (one edge, or several forward edges at once such as pending to
\* captured); a terminal intent is never moved by a later event and no intent
\* goes back to pending.
C6_StatusOnlyMovesForward ==
  [][\A i \in DOMAIN intents :
       intents'[i].status # intents[i].status
         => <<intents[i].status, intents'[i].status>> \in ForwardMoves]_vars

\* C7: a captured event for an order that already has an applied captured
\* event changes neither the intent's status nor the number of Payment rows
\* of the order, whatever payment id it carries.
C7_SecondCaptureChangesNothing ==
  [][\A w \in Workers :
       (/\ CommitStep(w)
        /\ req[w].kind = "webhook"
        /\ req[w].status = "captured"
        /\ \E i \in PaymentsOfOrder(req[w].order) : payments[i].status = "captured"
        /\ intents[req[w].intent].status = "captured")
         => /\ intents'[req[w].intent].status = "captured"
            /\ Cardinality({i \in DOMAIN payments' :
                              payments'[i].razorpay_order_id = req[w].order})
                 = Cardinality(PaymentsOfOrder(req[w].order))]_vars

\* C8: of two requests for one external payment id that run concurrently, the
\* one whose commit comes second (the row was committed after it had started)
\* leaves one Payment row and one ledger pair and is answered with success.
C8_RaceLoserSucceeds ==
  [][\A w \in Workers :
       (/\ CommitStep(w)
        /\ \E i \in PaymentsWithId(req[w].pay) : i > req[w].rows_seen
        /\ NoOutage)
         => /\ response'.code = 200
            /\ Cardinality({i \in DOMAIN payments' :
                              payments'[i].razorpay_payment_id = req[w].pay}) = 1
            /\ Cardinality({j \in DOMAIN ledger' :
                              ledger'[j].transaction_id = TransactionId(req[w].pay)}) = 2
    ]_vars

\* C9: unless ENVIRONMENT was set to development (the bypass the deployment
\* asked for), a webhook whose signature is not the HMAC of its raw body is
\* rejected with 401: the handler ends there, and intents, payments, ledger
\* and the scheduled events stay as they were.
C9_BadSignatureRejected ==
  [][\A w \in Workers, payload \in Payloads :
       \A signature \in WebhookSignatures(payload) :
         (/\ env_set # "development"
          /\ razorpay_webhook(w, payload, signature)
          /\ signature # Hmac(RAZORPAY_WEBHOOK_SECRET, payload))
           => /\ response'.code = 401
              /\ req' = req
              /\ UNCHANGED <<intents, payments, ledger, events>>]_vars

\* C10: a webhook with a mismatched or missing signature is taken up for
\* processing (its payload parsed, its handler past the signature check) only
\* when ENVIRONMENT was set, and set to a value other than production; with
\* ENVIRONMENT unset or production it gets 401.
C10_BypassOnlyWhenExplicit ==
  [][\A w \in Workers, payload \in Payloads :
       \A signature \in WebhookSignatures(payload) :
         (/\ razorpay_webhook(w, payload, signature)
          /\ signature # Hmac(RAZORPAY_WEBHOOK_SECRET, payload)
          /\ ~(response'.code = 401 /\ req' = req))
           => env_set \in Environments \ {"production"}]_vars

\* C11: a domain event is scheduled only by a request whose commit succeeded
\* (one event, in the step that answers 200); a request whose commit failed
\* schedules none; and every scheduled payment.succeeded has its Payment row
\* in the committed state.
C11_EventOnlyAfterCommit ==
  [][/\ events' # events =>
          /\ \E w \in Workers : CommitStep(w) /\ response'.code = 200
          /\ BagCardinality(events') = BagCardinality(events) + 1
     /\ (\E w \in Workers : CommitStep(w) /\ response'.code # 200)
          => events' = events
     /\ \A e \in BagToSet(events') :
          e.type = "payment.succeeded"
            => \E i \in DOMAIN payments' : payments'[i].razorpay_payment_id = e.pay
    ]_vars

\* one request committed and scheduled its event, a later one failed to commit
C11_Witness ==
  /\ response.code = 500
  /\ BagCardinality(events) = 1
  /\ \E e \in BagToSet(events) : e.type = "payment.succeeded"

\* C12: a publish_payment_event task, whether the message reaches the exchange
\* or the connection or the publish fails, leaves intents, payments, ledger
\* and the requests in hand as they were, produces no response of its own,
\* and hands at most one message to the exchange.
C12_PublishFailureIsolated ==
  [][BagCardinality(events') < BagCardinality(events)
       => /\ UNCHANGED <<intents, payments, ledger, req, response>>
          /\ published' \in {published, published + 1}]_vars

\* the only scheduled event was lost to a failed publish; its payment stands
C12_Witness ==
  /\ events = EmptyBag
  /\ published = 0
  /\ Len(payments) = 1
  /\ Len(ledger) = 2
  /\ response.code = 200

\* the charge ids of the subscription.charged webhooks accepted for a subscription
ChargesOf(sub) == {c \in PayIds : <<sub, c>> \in charges_delivered}

\* C13: the paid_count of a subscription is the number of distinct charge ids
\* delivered for it by subscription.charged webhooks: the first delivery of a
\* charge id counts, a repeated one does not.
C13_ChargeCountedOnce ==
  \A i \in DOMAIN subscriptions :
    subscriptions[i].paid_count =
      Cardinality(ChargesOf(subscriptions[i].razorpay_subscription_id))

\* C14: every subscription with total_count set has paid_count <= total_count
\* and remaining_count = total_count - paid_count.
C14_SubscriptionCounters ==
  \A i \in DOMAIN subscriptions :
    subscriptions[i].total_count # NoCount
      => /\ subscriptions[i].paid_count <= subscriptions[i].total_count
         /\ subscriptions[i].remaining_count =
              subscriptions[i].total_count - subscriptions[i].paid_count

\* a subscription of one cycle has been sent two different charges
C14_Witness ==
  \E i \in DOMAIN subscriptions :
    /\ subscriptions[i].total_count = 1
    /\ Cardinality(ChargesOf(subscriptions[i].razorpay_subscription_id)) = 2

\* C16: a dummy rent payment answered 201 for amount A adds, in its one commit,
\* an intent in status captured, one RentPayment for A, and a ledger pair
\* (debit A, credit A) for it.
C16_DummyRentPostsLedger ==
  [][\A amount \in DummyAmounts :
       (create_dummy_rent_payment(amount) /\ response'.code = 201)
         => /\ intents'[Len(intents')].status = "captured"
            /\ Len(rent_payments') = Len(rent_payments) + 1
            /\ rent_payments'[Len(rent_payments')].amount = amount
            /\ Len(ledger') = Len(ledger) + 2
            /\ \E d, c \in DOMAIN ledger' \ DOMAIN ledger :
                 /\ ledger'[d].debit = amount
                 /\ ledger'[c].credit = amount
                 /\ ledger'[d].transaction_id = ledger'[c].transaction_id]_vars

\* C17: a dummy advance payment answered 201 for amount A leaves a ledger pair
\* (debit A, credit A) for the advance in the ledger.
C17_DummyAdvancePostsLedger ==
  [][\A amount \in DummyAmounts :
       (create_dummy_advance_payment(amount) /\ response'.code = 201)
         => /\ Len(advance_payments') = Len(advance_payments) + 1
            /\ Len(ledger') = Len(ledger) + 2
            /\ \E d, c \in DOMAIN ledger' \ DOMAIN ledger :
                 /\ ledger'[d].debit = amount
                 /\ ledger'[c].credit = amount
                 /\ ledger'[d].transaction_id = ledger'[c].transaction_id]_vars

\* C18: an intent creation answered 500 (the gateway order could not be
\* opened) leaves its PaymentIntent persisted in status created with no
\* gateway order id.
C18_FailedOrderLeavesCreatedIntent ==
  [][\A purpose \in Purposes, amount \in IntentAmounts :
       (create_payment_intent(purpose, amount) /\ response'.code = 500)
         => /\ Len(intents') = Len(intents) + 1
            /\ intents'[Len(intents')].status = "created"
            /\ intents'[Len(intents')].razorpay_order_id = NoId]_vars

\* C19: /verify answers 400 when a field is missing or the client signature
\* is not the HMAC of order id and payment id, 404 when the signature is good
\* and no intent has the order id, and 500 when the gateway fetch fails; none
\* of these requests, nor any first step of /verify, touches intents,
\* payments, ledger or the scheduled events.
C19_VerifyRejections ==
  [][/\ \A w \in Workers, order \in OrderIds \cup {NoId}, pay \in PayIds \cup {NoId} :
          \A signature \in ClientSignatures(order, pay) :
            verify_payment(w, order, pay, signature) =>
              /\ UNCHANGED <<intents, payments, ledger, events>>
              /\ (\/ order = NoId
                  \/ pay = NoId
                  \/ signature # Hmac(RAZORPAY_KEY_SECRET, <<order, pay>>))
                   => (response'.code = 400 /\ req' = req)
              /\ (/\ order # NoId
                  /\ pay # NoId
                  /\ signature = Hmac(RAZORPAY_KEY_SECRET, <<order, pay>>)
                  /\ \A i \in DOMAIN intents : intents[i].razorpay_order_id # order)
                   => (response'.code = 404 /\ req' = req)
     /\ \A w \in Workers :
          (req[w].pc = "vf_loaded" /\ req'[w].pc = "idle")
            => /\ response'.code = 500
               /\ UNCHANGED <<intents, payments, ledger, events>>
    ]_vars

\* the gateway fetch of a /verify call failed after a payment had been recorded
C19_Witness ==
  /\ response.code = 500
  /\ response.error = "FetchError"
  /\ Len(payments) = 1

\* C20: the Payment a /verify call records carries the fetched amount, and the
\* status given to the Payment and to the intent is the one the fetched gateway
\* record reports (captured only when the record is captured).
C20_VerifyAppliesFetchedRecord ==
  [][\A w \in Workers :
       (/\ req[w].pc = "vf_fetched"
        /\ req'[w].pc = "idle"
        /\ Len(payments') = Len(payments) + 1)
         => /\ payments'[Len(payments')].amount = PaiseToRupees(req[w].amount)
            /\ payments'[Len(payments')].status = StatusMapping(req[w].status)
            /\ intents'[req[w].intent].status = StatusMapping(req[w].status)]_vars

\* C21: ledger entries exist only for payments applied as captured: the Payment
\* every ledger row refers to has status captured (an authorized or failed
\* event posts nothing).
C21_LedgerOnlyOnCapture ==
  \A j \in DOMAIN ledger :
    \A i \in DOMAIN payments :
      payments[i].id = ledger[j].reference_id => payments[i].status = "captured"

\* C22: each posting for a payment of amount A and an intent of purpose p adds
\* exactly two rows under one transaction_id: cash_and_bank with debit A and no
\* credit, and a row with credit A and no debit on rent_revenue for rent,
\* security_deposits for deposit, mess_revenue for mess, other_revenue otherwise.
C22_PosterWritesThePair ==
  /\ Len(ledger) = 2 * Len(payments)
  /\ \A i \in DOMAIN payments :
       LET A == payments[i].amount
           p == intents[payments[i].payment_intent_id].purpose
           d == ledger[2 * i - 1]
           c == ledger[2 * i]
       IN /\ d.transaction_id = c.transaction_id
          /\ \A j \in DOMAIN ledger :
               ledger[j].transaction_id = d.transaction_id => j \in {2 * i - 1, 2 * i}
          /\ d.account = "cash_and_bank" /\ d.debit = A /\ d.credit = NoAmount
          /\ c.credit = A /\ c.debit = NoAmount
          /\ p = "rent" => c.account = "rent_revenue"
          /\ p = "deposit" => c.account = "security_deposits"
          /\ p = "mess" => c.account = "mess_revenue"
          /\ p \notin {"rent", "deposit", "mess"} => c.account = "other_revenue"

\* a mess payment and a maintenance payment have been posted
C22_Witness ==
  /\ \E j \in DOMAIN ledger : ledger[j].account = "mess_revenue"
  /\ \E j \in DOMAIN ledger : ledger[j].account = "other_revenue"

\* C23: an amount that is a whole number of paise comes back as the same
\* amount after rupees -> paise -> rupees, and a number of paise comes back as
\* the same integer after paise -> rupees -> paise.
IntegralPaise(amount) == (amount.coef * PaisePerRupee) % Pow10(amount.exp) = 0

C23_RoundTripExact ==
  (conversion.steps = 2 /\ IntegralPaise(conversion.original))
    => /\ conversion.current.unit = conversion.original.unit
       /\ DecimalEq(conversion.current, conversion.original)

C23_Witness ==
  /\ conversion.steps = 2
  /\ conversion.original.unit = "rupees"
  /\ conversion.original.exp = 2
  /\ conversion.original.coef % PaisePerRupee # 0
  /\ DecimalEq(conversion.current, conversion.original)

\* C24: the ledger is append-only: every step leaves the entries already
\* committed where they were, with their account, debit, credit and
\* transaction_id, and can only add entries after them.
C24_LedgerAppendOnly ==
  [][/\ Len(ledger') >= Len(ledger)
     /\ \A i \in DOMAIN ledger : ledger'[i] = ledger[i]]_vars

C24_Witness ==
  /\ Len(ledger) >= 4
  /\ ledger[1].transaction_id # ledger[3].transaction_id

\* C25: no two intents hold the same non-null razorpay_order_id, and no step
\* changes the razorpay_order_id of an intent that has one.
C25_OrderIdUniqueAndFixed ==
  /\ [](\A i, j \in DOMAIN intents :
          (i # j /\ intents[i].razorpay_order_id # NoId)
            => intents[i].razorpay_order_id # intents[j].razorpay_order_id)
  /\ [][/\ Len(intents') >= Len(intents)
        /\ \A i \in DOMAIN intents :
             intents[i].razorpay_order_id # NoId
               => intents'[i].razorpay_order_id = intents[i].razorpay_order_id]_vars

C25_Witness ==
  /\ \E i, j \in DOMAIN intents :
       /\ i # j
       /\ intents[i].razorpay_order_id # NoId
       /\ intents[j].razorpay_order_id # NoId
  /\ response.error = "IntegrityError"

\* C30: while create_order is on the wire, the request's transaction has
\* written nothing that is not yet committed.
C30_NoWriteHeldAcrossGatewayCall ==
  creating.pc = "create_order" => creating.uncommitted = << >>

\* C26: a receipt task waits only for a Payment that is committed, and its run,
\* whether it stores the receipt or fails, changes nothing but the receipt_url
\* of that one Payment: no other Payment, no status or amount, no intent, no
\* ledger entry, no scheduled event and no response.
C26_ReceiptIsolated ==
  /\ [](\A payment_id \in receipt_tasks : PaymentsById(payment_id) # {})
  /\ [][\A payment_id \in receipt_tasks :
          generate_receipt(payment_id)
            => /\ UNCHANGED <<intents, ledger, events, response, req>>
               /\ DOMAIN payments' = DOMAIN payments
               /\ \A i \in DOMAIN payments :
                    /\ payments'[i] =
                         [payments[i] EXCEPT !.receipt_url = payments'[i].receipt_url]
                    /\ payments[i].id # payment_id => payments'[i] = payments[i]]_vars

C26_Witness ==
  /\ Len(payments) = 2
  /\ receipt_tasks = {}
  /\ payments[1].receipt_url = NoUrl
  /\ payments[2].receipt_url # NoUrl

\* C27: a captured event for a payment id whose authorized event has already
\* been applied to the intent is answered without an error and leaves the
\* intent captured, with exactly one Payment row for that id (the database
\* being available).
C27_CapturedAfterAuthorized ==
  [][\A w \in Workers :
       (/\ process_payment_webhook(w)
        /\ response'.error # "OperationalError"
        /\ req[w].status = "captured"
        /\ intents[req[w].intent].status = "authorized"
        /\ \E i \in PaymentsWithId(req[w].pay) :
             /\ payments[i].status = "authorized"
             /\ payments[i].razorpay_order_id = req[w].order)
         => /\ response'.code = 200
            /\ intents'[req[w].intent].status = "captured"
            /\ Cardinality({i \in DOMAIN payments' :
                 payments'[i].razorpay_payment_id = req[w].pay}) = 1]_vars

C31_EventTypeMatchesStatus ==
  [][\A w \in Workers :
       process_payment_webhook(w) =>
         /\ events' = AddTask([type |-> "payment.succeeded", order |-> req[w].order,
                               pay |-> req[w].pay])
              => intents'[req[w].intent].status = "captured"
         /\ events' = AddTask([type |-> "payment.failed", order |-> req[w].order,
                               pay |-> req[w].pay])
              => req[w].status = "failed"]_vars

\* C32: an order never leaves cancelled or delivered, is cancelled only from
\* pending or confirmed, and otherwise only moves forward along
\* pending, confirmed, preparing, ready, delivered.
LifecycleRank(status) ==
  CASE status = "pending" -> 1
    [] status = "confirmed" -> 2
    [] status = "preparing" -> 3
    [] status = "ready" -> 4
    [] status = "delivered" -> 5
    [] OTHER -> 6

C32_OrderLifecycle ==
  [][\A i \in DOMAIN orders :
       orders'[i].status # orders[i].status
         => /\ orders[i].status \notin {"cancelled", "delivered"}
            /\ IF orders'[i].status = "cancelled"
                 THEN orders[i].status \in {"pending", "confirmed"}
                 ELSE LifecycleRank(orders'[i].status) > LifecycleRank(orders[i].status)]_vars

\* C33: every room has 0 <= current_occupancy <= capacity and is not available
\* when it is full, and no booking request has added more than one unit to
\* its room.
C33_OccupancyWithinCapacity ==
  /\ \A r \in DOMAIN rooms :
       /\ 0 <= rooms[r].current_occupancy
       /\ rooms[r].current_occupancy <= rooms[r].capacity
       /\ rooms[r].current_occupancy >= rooms[r].capacity => ~rooms[r].is_available
  /\ \A b \in DOMAIN bookings : bookings[b].occupied <= 1

\* C34: a meal coupon is redeemed at most once: of the redeem_coupon calls
\* that name one coupon, whatever their interleaving and whether a client or
\* an order sent them, at most one answers 200; and a used coupon never
\* becomes unused again.
C34_CouponRedeemedOnce ==
  /\ [](\A k \in DOMAIN coupons :
          Cardinality({c \in DOMAIN redeem_calls :
                         /\ redeem_calls[c].coupon_id = k
                         /\ redeem_calls[c].at = "done"
                         /\ redeem_calls[c].status_code = 200}) <= 1)
  /\ [][\A k \in DOMAIN coupons : coupons[k].is_used => coupons'[k].is_used]_vars

\* a revoked record stays revoked, a /refresh that reads one answers 401, and
\* change_password leaves every refresh token record of the user revoked
C35_RevokedStaysRejected ==
  [][/\ \A t \in DOMAIN refresh_tokens :
          refresh_tokens[t].is_revoked => refresh_tokens'[t].is_revoked
     /\ \A c \in DOMAIN refresh_calls :
          /\ refresh_token_select(c)
          /\ refresh_calls[c].jti \in DOMAIN refresh_tokens
          /\ refresh_tokens[refresh_calls[c].jti].is_revoked
          => refresh_calls'[c].status_code = 401
     /\ \A user_id \in Users :
          change_password(user_id)
          => \A t \in DOMAIN refresh_tokens' :
               refresh_tokens'[t].user_id = user_id => refresh_tokens'[t].is_revoked
    ]_vars

\* C35: a refresh token is used once: of the /refresh calls that carry one
\* token, whatever their interleaving, at most one answers 200; a revoked
\* record stays revoked; a /refresh that reads a revoked record answers 401;
\* and change_password leaves every refresh token record of the user revoked.
C35_RefreshTokenSingleUse ==
  /\ [](\A t \in DOMAIN refresh_tokens :
          Cardinality({c \in DOMAIN refresh_calls :
                         /\ refresh_calls[c].jti = t
                         /\ refresh_calls[c].at = "done"
                         /\ refresh_calls[c].status_code = 200}) <= 1)
  /\ C35_RevokedStaysRejected

====
